---- MODULE Spec2Model ----
(***************************************************************************)
(* Gen2 Repair API: the relational store (app/models.py), the CRUD layer   *)
(* (app/crud.py) and the request handlers (app/main.py).                   *)
(*                                                                         *)
(* A request handler runs in its own SQLAlchemy session (get_db).  The     *)
(* CRUD functions read the store and leave INSERT / UPDATE / DELETE        *)
(* statements in the session's unit of work; db.flush() sends them to the  *)
(* database inside the open transaction, db.commit() makes them visible,   *)
(* and db.close() without a commit rolls them back.                        *)
(*                                                                         *)
(* Optional[T] values are modelled as sets: None is {} and a value v is    *)
(* {v}.  Strings that the code builds character by character (repair_uid)  *)
(* are sequences of one-character strings.                                 *)
(***************************************************************************)
EXTENDS Integers, Sequences, FiniteSets, TLC

VARIABLES
    vessels,            \* table vessels
    repairs,            \* table repairs
    component_changes,  \* table component_changes
    config_changes,     \* table config_changes
    repair_checklist,   \* table repair_checklist
    seq,                \* the BigInteger primary-key sequences, one per table
    now,                \* the clock read by datetime.utcnow() and func.now()
    sessions,           \* the open sessions (one per request in flight)
    resp,               \* the response of the request that ended last
    API_KEY,            \* os.environ.get("API_KEY"), read once at start-up
    x_api_key           \* the X-API-Key header of the request served last

vars == <<vessels, repairs, component_changes, config_changes,
          repair_checklist, seq, now, sessions, resp, API_KEY, x_api_key>>

keys == <<API_KEY, x_api_key>>

tables == <<vessels, repairs, component_changes, config_changes, repair_checklist>>

-----------------------------------------------------------------------------
(* Bounds of the model *)

\* the clock takes the values 0..MaxTime
MaxTime == 1
\* at most MaxRepairs repairs are created
MaxRepairs == 2
\* at most MaxChanges component changes and MaxChanges config changes are added
MaxChanges == 2
\* requests in flight at the same time
MaxSessions == 2

None == {}
Some(v) == {v}

\* Python truthiness of an Optional[dict]: None and {} are falsy
Truthy(opt) == \E d \in opt : DOMAIN d # {}

-----------------------------------------------------------------------------
(* Inputs *)

Hulls == {"R132", "R200"}

\* the values secrets.token_hex(3) may draw its three bytes from
RandomBytes == {<<10, 188, 255>>, <<0, 1, 239>>}

\* a repair_uid no repair has (a path parameter may be any string)
UnknownUid == <<"R", "E", "P", "-", "X">>

-----------------------------------------------------------------------------
(* app/models.py: the schema *)

\* the pre-seeded catalog, table checklist_items (no handler writes it)
ChecklistItems ==
    { [id |-> 1, code |-> "A", label |-> "Sea trial", sort_order |-> 1, active |-> TRUE],
      [id |-> 2, code |-> "B", label |-> "Leak test", sort_order |-> 0, active |-> FALSE] }

\* the keys a client may submit: two catalog codes and one no item has
Codes == {"A", "B", "ZZZ"}

\* the payload fields of schemas.RepairUpdate other than snapshot
RepairUpdateFields ==
    {"location", "ticket", "technicians", "program", "service_type",
     "root_cause_cat", "issue_desc", "root_cause_details", "wiring_notes",
     "structural_notes", "verification_notes", "final_status", "limitations"}

\* schemas.RepairSnapshot field -> models.Repair column
SnapshotColumn ==
    [ilmor_sn |-> "snapshot_ilmor_sn", ilmor_fw |-> "snapshot_ilmor_fw",
     icu_sn |-> "snapshot_icu_sn", orca_sn |-> "snapshot_orca_sn",
     battery_sns |-> "snapshot_battery_sns", camera |-> "snapshot_camera",
     radar |-> "snapshot_radar", compass |-> "snapshot_compass",
     two_battery |-> "snapshot_two_battery"]

SnapshotFields == DOMAIN SnapshotColumn

\* a new row of table vessels
Vessel(id, hull_id, t) ==
    [id |-> id, hull_id |-> hull_id, notes |-> None, created_at |-> t]

\* a new row of table repairs: the columns create_repair does not set are NULL
Repair(id, repair_uid, vessel_id, payload, t) ==
    [id |-> id, repair_uid |-> repair_uid, vessel_id |-> vessel_id,
     date_opened |-> payload.date_opened,
     location |-> payload.location, ticket |-> payload.ticket,
     technicians |-> payload.technicians, program |-> payload.program,
     service_type |-> payload.service_type,
     root_cause_cat |-> payload.root_cause_cat,
     issue_desc |-> payload.issue_desc,
     root_cause_details |-> None, wiring_notes |-> None,
     structural_notes |-> None, verification_notes |-> None,
     final_status |-> None, limitations |-> None,
     snapshot_ilmor_sn |-> None, snapshot_ilmor_fw |-> None,
     snapshot_icu_sn |-> None, snapshot_orca_sn |-> None,
     snapshot_battery_sns |-> None, snapshot_camera |-> None,
     snapshot_radar |-> None, snapshot_compass |-> None,
     snapshot_two_battery |-> None,
     created_at |-> t, updated_at |-> t]

\* a new row of component_changes or config_changes: chg is the dumped payload
Change(id, repair_id, chg, t) ==
    [id |-> id, repair_id |-> repair_id, fields |-> chg, created_at |-> t]

\* a row of table repair_checklist
RepairChecklist(repair_id, item_id, checked, checked_at) ==
    [repair_id |-> repair_id, item_id |-> item_id,
     checked |-> checked, checked_at |-> checked_at]

\* the primary key of a row
PrimaryKey(table, row) ==
    IF table = "repair_checklist" THEN <<row.repair_id, row.item_id>>
    ELSE <<row.id>>

\* mutant of UniqueConflict: repairs.repair_uid declared without unique=True
UniqueConflictHullOnly(db, table, row) ==
    table = "vessels" /\ \E r \in db.vessels : r.hull_id = row.hull_id

\* unique=True columns: vessels.hull_id and repairs.repair_uid
UniqueConflict(db, table, row) ==
    \/ table = "vessels" /\ \E r \in db.vessels : r.hull_id = row.hull_id
    \/ table = "repairs" /\ \E r \in db.repairs : r.repair_uid = row.repair_uid

\* primary_key=True: no second row with the same key
PrimaryKeyConflict(db, table, row) ==
    \E r \in db[table] : PrimaryKey(table, r) = PrimaryKey(table, row)

\* ForeignKey columns: the referenced row must exist
ForeignKeyMissing(db, table, row) ==
    \/ table = "repairs" /\ ~ \E v \in db.vessels : v.id = row.vessel_id
    \/ /\ table \in {"component_changes", "config_changes", "repair_checklist"}
       /\ ~ \E r \in db.repairs : r.id = row.repair_id
    \/ /\ table = "repair_checklist"
       /\ ~ \E i \in ChecklistItems : i.id = row.item_id

-----------------------------------------------------------------------------
(* The database: statements and their execution *)

Insert(table, row) == [t |-> "insert", table |-> table, row |-> row]

\* UPDATE table SET set WHERE primary key = pk
Update(table, pk, set) == [t |-> "update", table |-> table, pk |-> pk, set |-> set]

\* DELETE FROM table WHERE primary key = pk
Delete(table, pk) == [t |-> "delete", table |-> table, pk |-> pk]

\* the store as one record, for the operators below
DB == [vessels |-> vessels, repairs |-> repairs,
       component_changes |-> component_changes,
       config_changes |-> config_changes,
       repair_checklist |-> repair_checklist]

\* an INSERT that breaks a constraint raises IntegrityError
InsertRejected(db, table, row) ==
    \/ PrimaryKeyConflict(db, table, row)
    \/ UniqueConflict(db, table, row)
    \/ ForeignKeyMissing(db, table, row)

\* one statement against the store: [ok, db]
ExecStmt(db, st) ==
    CASE st.t = "insert" ->
           IF InsertRejected(db, st.table, st.row)
           THEN [ok |-> FALSE, db |-> db]
           ELSE [ok |-> TRUE,
                 db |-> [db EXCEPT ![st.table] = @ \cup {st.row}]]
      [] st.t = "update" ->
           [ok |-> TRUE,
            db |-> [db EXCEPT ![st.table] =
                      { IF PrimaryKey(st.table, r) = st.pk
                        THEN [c \in DOMAIN r |->
                                 IF c \in DOMAIN st.set THEN st.set[c] ELSE r[c]]
                        ELSE r : r \in @ }]]
      [] st.t = "delete" ->
           \* a DELETE that matches no row is a warning, not an error
           [ok |-> TRUE,
            db |-> [db EXCEPT ![st.table] =
                      { r \in @ : PrimaryKey(st.table, r) # st.pk }]]

\* the statements of one transaction in order: stops at the first that fails,
\* db is then the store as the statements before it left it
RECURSIVE ExecAll(_, _)
ExecAll(db, stmts) ==
    IF stmts = <<>> THEN [ok |-> TRUE, db |-> db]
    ELSE LET r == ExecStmt(db, Head(stmts))
         IN IF r.ok THEN ExecAll(r.db, Tail(stmts)) ELSE [ok |-> FALSE, db |-> db]

\* the columns the unit of work puts in an UPDATE: those whose value changed
ChangedColumns(old, new) == {c \in DOMAIN old : new[c] # old[c]}

\* the orders in which a SELECT may return a set of rows
Orderings(rows) ==
    {o \in [1..Cardinality(rows) -> rows] :
        \A i, j \in 1..Cardinality(rows) : o[i] = o[j] => i = j}

-----------------------------------------------------------------------------
(* app/crud.py *)

\* the UTC calendar date at clock value t: the clock counts days from 2024-12-31
UtcDate(t) == IF t = 0 THEN <<2024, 12, 31>> ELSE <<2025, 1, t>>

DigitChars == <<"0", "1", "2", "3", "4", "5", "6", "7", "8", "9">>

HexChars == DigitChars \o <<"a", "b", "c", "d", "e", "f">>

RECURSIVE Pow10(_)
Pow10(k) == IF k = 0 THEN 1 ELSE 10 * Pow10(k - 1)

\* n in decimal, zero-padded to w digits (%Y is 4 wide, %m and %d are 2 wide)
ZeroPad(n, w) == [i \in 1..w |-> DigitChars[((n \div Pow10(w - i)) % 10) + 1]]

\* strftime("%Y%m%d")
strftime_Ymd(d) == ZeroPad(d[1], 4) \o ZeroPad(d[2], 2) \o ZeroPad(d[3], 2)

\* secrets.token_hex: two lower-case hex digits per byte
token_hex(bytes) ==
    [i \in 1..(2 * Len(bytes)) |->
        IF i % 2 = 1 THEN HexChars[(bytes[(i + 1) \div 2] \div 16) + 1]
        ELSE HexChars[(bytes[i \div 2] % 16) + 1]]

\* str.upper() on hex digits
upper(str) ==
    [i \in 1..Len(str) |->
        CASE str[i] = "a" -> "A" [] str[i] = "b" -> "B" [] str[i] = "c" -> "C"
          [] str[i] = "d" -> "D" [] str[i] = "e" -> "E" [] str[i] = "f" -> "F"
          [] OTHER -> str[i]]

\* REP-YYYYMMDD-<random>: t is utcnow(), bytes what token_hex(3) drew
new_repair_uid(t, bytes) ==
    <<"R", "E", "P", "-">> \o strftime_Ymd(UtcDate(t)) \o <<"-">>
        \o upper(token_hex(bytes))

\* mutant of get_or_create_vessel: no lookup, a vessel is created on every call
get_or_create_vessel_no_lookup(db, hull_id, new_id, t) ==
    [vessel |-> Vessel(new_id, hull_id, t),
     stmts |-> <<Insert("vessels", Vessel(new_id, hull_id, t))>>]

\* the vessel with this hull id, created when there is none:
\* [vessel, stmts] where stmts is what db.flush() sends
get_or_create_vessel(db, hull_id, new_id, t) ==
    LET found == {v \in db.vessels : v.hull_id = hull_id}
    IN IF found # {}
       THEN [vessel |-> CHOOSE v \in found : TRUE, stmts |-> <<>>]
       ELSE [vessel |-> Vessel(new_id, hull_id, t),
             stmts |-> <<Insert("vessels", Vessel(new_id, hull_id, t))>>]

\* crud.create_repair: [rep, stmts, seq]
create_repair(db, payload, ids, t, bytes) ==
    LET g == get_or_create_vessel(db, payload.hull_id, ids.vessels + 1, t)
        rep == Repair(ids.repairs + 1, new_repair_uid(t, bytes),
                      g.vessel.id, payload, t)
    IN [rep |-> rep,
        stmts |-> g.stmts \o <<Insert("repairs", rep)>>,
        seq |-> [ids EXCEPT !.vessels = @ + Len(g.stmts), !.repairs = @ + 1]]

\* mutant of get_repair_by_uid: the where clause is missing
get_repair_by_uid_no_where(db, repair_uid) == db.repairs

\* scalar_one_or_none: None, or the one repair with this repair_uid
get_repair_by_uid(db, repair_uid) ==
    {r \in db.repairs : r.repair_uid = repair_uid}

\* crud.update_repair up to db.add: [raised, rep].  model_dump turns the nested
\* RepairSnapshot into a plain dict, and a dict has no attribute ilmor_sn: the
\* first snapshot assignment raises AttributeError whenever `if snap` is taken.
update_repair(rep, payload) ==
    LET data == [k \in DOMAIN payload \ {"snapshot"} |-> payload[k]]
        snap == IF "snapshot" \in DOMAIN payload THEN payload["snapshot"] ELSE None
        rep1 == [c \in DOMAIN rep |-> IF c \in DOMAIN data THEN data[c] ELSE rep[c]]
    IN IF Truthy(snap)
       THEN [raised |-> "AttributeError", rep |-> rep1]
       ELSE [raised |-> "", rep |-> rep1]

\* the UPDATE db.flush() sends for a changed repair (none when nothing changed);
\* updated_at has onupdate=func.now()
flush_repair(old, new, t) ==
    LET changed == ChangedColumns(old, new)
    IN IF changed = {} THEN <<>>
       ELSE <<Update("repairs", <<old.id>>,
                [c \in changed \cup {"updated_at"} |->
                    IF c = "updated_at" THEN t ELSE new[c]])>>

\* crud.add_component_change / crud.add_config_change
add_change(table, rep, chg, ids, t) ==
    [stmts |-> <<Insert(table, Change(ids[table] + 1, rep.id, chg, t))>>,
     seq |-> [ids EXCEPT ![table] = @ + 1]]

\* mutant of delete_change: no `if not row` check, the delete is always issued
delete_change_no_check(db, table, change_id) ==
    [found |-> TRUE, stmts |-> <<Delete(table, <<change_id>>)>>]

\* crud.delete_component_change / crud.delete_config_change: [found, stmts]
delete_change(db, table, change_id) ==
    LET row == {c \in db[table] : c.id = change_id}
    IN IF row = {} THEN [found |-> FALSE, stmts |-> <<>>]
       ELSE [found |-> TRUE, stmts |-> <<Delete(table, <<change_id>>)>>]

\* by_code.get(code): None, or the catalog item with this code
by_code(code) == {i \in ChecklistItems : i.code = code}

\* mutant of upsert_one: no db.get, a row is inserted on every call
upsert_one_always_insert(db, rep, code, checked, t) ==
    LET item == CHOOSE i \in ChecklistItems : i.code = code
    IN <<Insert("repair_checklist",
                RepairChecklist(rep.id, item.id, checked,
                                IF checked THEN Some(t) ELSE None))>>

\* mutant of upsert_one: checked_at is kept when the row is already checked
upsert_one_keep_checked_at(db, rep, code, checked, t) ==
    LET item == CHOOSE i \in ChecklistItems : i.code = code
        row == {r \in db.repair_checklist :
                   r.repair_id = rep.id /\ r.item_id = item.id}
    IN IF row = {}
       THEN <<Insert("repair_checklist",
                     RepairChecklist(rep.id, item.id, checked,
                                     IF checked THEN Some(t) ELSE None))>>
       ELSE LET old == CHOOSE r \in row : TRUE
                new == [old EXCEPT !.checked = checked,
                                   !.checked_at = IF ~ checked THEN None
                                                  ELSE IF old.checked THEN old.checked_at
                                                  ELSE Some(t)]
                changed == ChangedColumns(old, new)
            IN IF changed = {} THEN <<>>
               ELSE <<Update("repair_checklist", <<rep.id, item.id>>,
                             [c \in changed |-> new[c]])>>

\* one pass of the loop of upsert_repair_checklist: the statement for one code
upsert_one(db, rep, code, checked, t) ==
    LET item == CHOOSE i \in ChecklistItems : i.code = code
        row == {r \in db.repair_checklist :
                   r.repair_id = rep.id /\ r.item_id = item.id}
        checked_at == IF checked THEN Some(t) ELSE None
    IN IF row = {}
       THEN <<Insert("repair_checklist",
                     RepairChecklist(rep.id, item.id, checked, checked_at))>>
       ELSE LET old == CHOOSE r \in row : TRUE
                new == [old EXCEPT !.checked = checked, !.checked_at = checked_at]
                changed == ChangedColumns(old, new)
            IN IF changed = {} THEN <<>>
               ELSE <<Update("repair_checklist", <<rep.id, item.id>>,
                             [c \in changed |-> new[c]])>>

\* crud.upsert_repair_checklist: the statements db.flush() sends, the codes no
\* catalog item has being skipped
RECURSIVE upsert_codes(_, _, _, _, _)
upsert_codes(db, rep, states, codes, t) ==
    IF codes = {} THEN <<>>
    ELSE LET code == CHOOSE c \in codes : TRUE
         IN (IF by_code(code) = {} THEN <<>>
             ELSE upsert_one(db, rep, code, states[code], t))
            \o upsert_codes(db, rep, states, codes \ {code}, t)

\* mutant of upsert_repair_checklist: a code no item has is not skipped, and a
\* row that references no catalog item is written for it
upsert_repair_checklist_no_skip(db, rep, states, t) ==
    upsert_codes(db, rep, states, DOMAIN states, t)
       \o (IF \E c \in DOMAIN states : by_code(c) = {}
           THEN <<Insert("repair_checklist",
                         RepairChecklist(rep.id, 0, TRUE, Some(t)))>>
           ELSE <<>>)

upsert_repair_checklist(db, rep, states, t) ==
    upsert_codes(db, rep, states, DOMAIN states, t)

\* Python truthiness of an Optional[str]: None and "" are falsy (Truthy is the
\* same for a string held as a sequence of characters)
TruthyStr(opt) == \E v \in opt : v # ""

\* the value of a decimal digit character, 10 for any other character
DigitValue(ch) ==
    IF \E i \in 1..10 : DigitChars[i] = ch
    THEN (CHOOSE i \in 1..10 : DigitChars[i] = ch) - 1
    ELSE 10

\* the database reads a string compared with a DATE column as a date:
\* "YYYY-MM-DD" gives {<<y, m, d>>}, anything else is an error, {}
date_in(str) ==
    IF /\ Len(str) = 10
       /\ str[5] = "-" /\ str[8] = "-"
       /\ \A i \in {1, 2, 3, 4, 6, 7, 9, 10} : DigitValue(str[i]) < 10
    THEN LET y == 1000 * DigitValue(str[1]) + 100 * DigitValue(str[2])
                  + 10 * DigitValue(str[3]) + DigitValue(str[4])
             m == 10 * DigitValue(str[6]) + DigitValue(str[7])
             d == 10 * DigitValue(str[9]) + DigitValue(str[10])
         IN IF m \in 1..12 /\ d \in 1..31 THEN {<<y, m, d>>} ELSE {}
    ELSE {}

\* a <= b on DATE values <<y, m, d>>
DateLE(a, b) ==
    \/ a[1] < b[1]
    \/ a[1] = b[1] /\ a[2] < b[2]
    \/ a[1] = b[1] /\ a[2] = b[2] /\ a[3] <= b[3]

\* mutant of list_repairs_where: the upper end of the range is exclusive
list_repairs_where_exclusive(db, r, hull_id, date_from, date_to) ==
    /\ TruthyStr(hull_id) =>
          \E v \in db.vessels : v.id = r.vessel_id /\ Some(v.hull_id) = hull_id
    /\ Truthy(date_from) =>
          \A d \in date_from : \A f \in date_in(d) : DateLE(f, r.date_opened)
    /\ Truthy(date_to) =>
          \A d \in date_to : \A t \in date_in(d) :
             DateLE(r.date_opened, t) /\ r.date_opened # t

\* the where clauses of crud.list_repairs: does repair r pass the filters given
list_repairs_where(db, r, hull_id, date_from, date_to) ==
    /\ TruthyStr(hull_id) =>
          \E v \in db.vessels : v.id = r.vessel_id /\ Some(v.hull_id) = hull_id
    /\ Truthy(date_from) =>
          \A d \in date_from : \A f \in date_in(d) : DateLE(f, r.date_opened)
    /\ Truthy(date_to) =>
          \A d \in date_to : \A t \in date_in(d) : DateLE(r.date_opened, t)

\* crud.list_repairs: [raised, rows], rows the sequences the query may return:
\* the repairs that pass the filters by date_opened descending, repairs of the
\* same date in any order, cut at limit.  A date filter the database cannot
\* read as a date raises DataError.
list_repairs(db, hull_id, date_from, date_to, limit) ==
    LET bad(opt) == Truthy(opt) /\ \E d \in opt : date_in(d) = {}
        hits == {r \in db.repairs :
                    list_repairs_where(db, r, hull_id, date_from, date_to)}
        sorted == {o \in Orderings(hits) :
                      \A i, j \in 1..Cardinality(hits) :
                         i < j => DateLE(o[j].date_opened, o[i].date_opened)}
        n == IF Cardinality(hits) < limit THEN Cardinality(hits) ELSE limit
    IN IF bad(date_from) \/ bad(date_to)
       THEN [raised |-> "DataError", rows |-> {}]
       ELSE [raised |-> "", rows |-> {SubSeq(o, 1, n) : o \in sorted}]

-----------------------------------------------------------------------------
(* app/main.py: what a handler does before db.commit().                    *)
(* [status, stmts, seq, uid]: status 200 when the handler reaches          *)
(* db.commit(), stmts the statements of its transaction in order (for a    *)
(* handler that raised, what its session held unflushed), seq the          *)
(* primary-key sequences afterwards, uid the repair the request is about   *)

\* POST /repairs
handle_create_repair(db, payload, ids, t, bytes) ==
    LET c == create_repair(db, payload, ids, t, bytes)
    IN [status |-> 200, stmts |-> c.stmts, seq |-> c.seq, uid |-> c.rep.repair_uid]

\* PATCH /repairs/{repair_uid}
handle_patch_repair(db, repair_uid, payload, ids, t) ==
    LET found == get_repair_by_uid(db, repair_uid)
    IN IF found = {}
       THEN [status |-> 404, stmts |-> <<>>, seq |-> ids, uid |-> repair_uid]
       ELSE LET rep == CHOOSE r \in found : TRUE
                u == update_repair(rep, payload)
            IN IF u.raised # ""
               THEN \* the fields assigned so far are pending in the session
                    [status |-> 500, stmts |-> flush_repair(rep, u.rep, t),
                     seq |-> ids, uid |-> repair_uid]
               ELSE [status |-> 200, stmts |-> flush_repair(rep, u.rep, t),
                     seq |-> ids, uid |-> repair_uid]

\* POST /repairs/{repair_uid}/component-changes and .../config-changes
handle_add_change(db, table, repair_uid, chg, ids, t) ==
    LET found == get_repair_by_uid(db, repair_uid)
    IN IF found = {}
       THEN [status |-> 404, stmts |-> <<>>, seq |-> ids, uid |-> repair_uid]
       ELSE LET a == add_change(table, CHOOSE r \in found : TRUE, chg, ids, t)
            IN [status |-> 200, stmts |-> a.stmts, seq |-> a.seq, uid |-> repair_uid]

\* DELETE /component-changes/{change_id} and /config-changes/{change_id}
handle_remove_change(db, table, change_id, ids) ==
    LET d == delete_change(db, table, change_id)
    IN IF ~ d.found
       THEN [status |-> 404, stmts |-> <<>>, seq |-> ids, uid |-> <<>>]
       ELSE [status |-> 200, stmts |-> d.stmts, seq |-> ids, uid |-> <<>>]

\* PUT /repairs/{repair_uid}/checklist
handle_update_checklist(db, repair_uid, states, ids, t) ==
    LET found == get_repair_by_uid(db, repair_uid)
    IN IF found = {}
       THEN [status |-> 404, stmts |-> <<>>, seq |-> ids, uid |-> repair_uid]
       ELSE [status |-> 200,
             stmts |-> upsert_repair_checklist(db, CHOOSE r \in found : TRUE,
                                               states, t),
             seq |-> ids, uid |-> repair_uid]

\* crud.get_checklist_items: the sequences the query may return, the active
\* items by sort_order ascending
get_checklist_items ==
    LET active == {i \in ChecklistItems : i.active}
    IN {o \in Orderings(active) :
           \A i, j \in 1..Cardinality(active) :
              i < j => o[i].sort_order <= o[j].sort_order}

\* the loop of repair_to_out over rep.checklist, in the order the rows were
\* loaded: a later row of the same code overwrites the earlier entry
RECURSIVE checklist_map(_, _)
checklist_map(rows, acc) ==
    IF rows = <<>> THEN acc
    ELSE LET rc == Head(rows)
             item == {i \in ChecklistItems : i.id = rc.item_id}
         IN IF item = {} \/ (CHOOSE i \in item : TRUE).code = ""
            THEN checklist_map(Tail(rows), acc)
            ELSE LET code == (CHOOSE i \in item : TRUE).code
                 IN checklist_map(Tail(rows),
                       [c \in DOMAIN acc \cup {code} |->
                           IF c = code THEN rc.checked ELSE acc[c]])

\* the record of one change in the aggregate view: the payload fields, id and
\* created_at
change_out(c) ==
    [f \in DOMAIN c.fields \cup {"id", "created_at"} |->
        CASE f = "id" -> c.id
          [] f = "created_at" -> c.created_at
          [] OTHER -> c.fields[f]]

\* the fields of schemas.RepairOut
RepairOutFields ==
    {"repair_uid", "hull_id", "date_opened"} \cup RepairUpdateFields
       \cup {"snapshot", "component_changes", "config_changes", "checklist"}

\* mutant of repair_to_out: a code without a row is reported as false
repair_to_out_all_codes(db, rep, comps, confs, checks) ==
    [f \in RepairOutFields |->
        CASE f = "hull_id" -> LET v == {x \in db.vessels : x.id = rep.vessel_id}
                          IN IF v = {} THEN "" ELSE (CHOOSE x \in v : TRUE).hull_id
          [] f = "snapshot" -> [g \in SnapshotFields |-> rep[SnapshotColumn[g]]]
          [] f = "component_changes" ->
                [i \in 1..Len(comps) |-> change_out(comps[i])]
          [] f = "config_changes" ->
                [i \in 1..Len(confs) |-> change_out(confs[i])]
          [] f = "checklist" -> checklist_map(checks, [c \in {i.code : i \in ChecklistItems} |-> FALSE])
          [] OTHER -> rep[f]]

\* mutant of repair_to_out: the hull id is not read from the owning vessel
repair_to_out_no_vessel(db, rep, comps, confs, checks) ==
    [f \in RepairOutFields |->
        CASE f = "hull_id" -> ""
          [] f = "snapshot" -> [g \in SnapshotFields |-> rep[SnapshotColumn[g]]]
          [] f = "component_changes" ->
                [i \in 1..Len(comps) |-> change_out(comps[i])]
          [] f = "config_changes" ->
                [i \in 1..Len(confs) |-> change_out(confs[i])]
          [] f = "checklist" -> checklist_map(checks, [c \in {} |-> FALSE])
          [] OTHER -> rep[f]]

\* main.repair_to_out, the aggregate view of a repair.  comps, confs and checks
\* are rep.component_changes, rep.config_changes and rep.checklist as the
\* relationships loaded them
repair_to_out(db, rep, comps, confs, checks) ==
    [f \in RepairOutFields |->
        CASE f = "hull_id" -> LET v == {x \in db.vessels : x.id = rep.vessel_id}
                          IN IF v = {} THEN "" ELSE (CHOOSE x \in v : TRUE).hull_id
          [] f = "snapshot" -> [g \in SnapshotFields |-> rep[SnapshotColumn[g]]]
          [] f = "component_changes" ->
                [i \in 1..Len(comps) |-> change_out(comps[i])]
          [] f = "config_changes" ->
                [i \in 1..Len(confs) |-> change_out(confs[i])]
          [] f = "checklist" -> checklist_map(checks, [c \in {} |-> FALSE])
          [] OTHER -> rep[f]]

\* a relationship without order_by is loaded by a SELECT without ORDER BY: the
\* rows come in whatever order the database returns them
relationship(rows) == Orderings(rows)

-----------------------------------------------------------------------------
(* State *)

Slots == 1..MaxSessions

Idle == [pc |-> "idle"]

NoResponse == [op |-> "none", status |-> 0, uid |-> <<>>, arg |-> <<>>, at |-> 0]

\* the response of a request: arg is its payload (or change id), at the clock
Response(op, status, uid, arg) ==
    [op |-> op, status |-> status, uid |-> uid, arg |-> arg, at |-> now]

Init ==
    /\ vessels = {}
    /\ repairs = {}
    /\ component_changes = {}
    /\ config_changes = {}
    /\ repair_checklist = {}
    /\ seq = [vessels |-> 0, repairs |-> 0,
              component_changes |-> 0, config_changes |-> 0]
    /\ now = 0
    /\ sessions = [s \in Slots |-> Idle]
    /\ resp = NoResponse
    /\ API_KEY = None
    /\ x_api_key = None

\* the store becomes db
Persist(db) ==
    /\ vessels' = db.vessels
    /\ repairs' = db.repairs
    /\ component_changes' = db.component_changes
    /\ config_changes' = db.config_changes
    /\ repair_checklist' = db.repair_checklist

\* time passes
Tick ==
    /\ now < MaxTime
    /\ now' = now + 1
    /\ UNCHANGED <<tables, seq, sessions, resp, keys>>

-----------------------------------------------------------------------------
(* Requests served one at a time: the whole handler, from get_db to        *)
(* db.close(), with no other request in between                            *)

\* mutant of require_api_key: only a missing header is rejected
require_api_key_missing_only(api_key, x) ==
    IF ~ TruthyStr(api_key) THEN 0
    ELSE IF x = None THEN 401 ELSE 0

\* main.require_api_key: 401 when it raises, 0 when it returns.  api_key is
\* API_KEY, x the X-API-Key header (None when the request has none)
require_api_key(api_key, x) ==
    IF ~ TruthyStr(api_key) THEN 0
    ELSE IF x # api_key THEN 401 ELSE 0

\* a route declared with dependencies=[Depends(require_api_key)]: the request
\* carries the header key, and Handler runs when require_api_key returns
Authorized(key, op, arg, Handler) ==
    /\ \A s \in Slots : sessions[s].pc = "idle"
    /\ x_api_key' = key
    /\ UNCHANGED API_KEY
    /\ IF require_api_key(API_KEY, key) # 0
       THEN /\ resp' = Response(op, require_api_key(API_KEY, key), <<>>, arg)
            /\ UNCHANGED <<tables, seq, now, sessions>>
       ELSE Handler

\* mutant of Request: get_db commits what the session holds on every exit path
RequestCommitOnError(key, op, arg, h) ==
    Authorized(key, op, arg,
       LET r == ExecAll(DB, h.stmts)
       IN /\ Persist(IF r.ok THEN r.db ELSE DB)
          /\ seq' = h.seq
          /\ resp' = Response(op, IF h.status = 200 /\ ~ r.ok THEN 500 ELSE h.status,
                              h.uid, arg)
          /\ UNCHANGED <<now, sessions>>)

\* mutant of Request: every flushed statement is committed at once (autocommit)
RequestAutocommit(key, op, arg, h) ==
    Authorized(key, op, arg,
       LET r == ExecAll(DB, h.stmts)
       IN /\ Persist(IF h.status = 200 THEN r.db ELSE DB)
          /\ seq' = h.seq
          /\ resp' = Response(op, IF h.status = 200 /\ ~ r.ok THEN 500 ELSE h.status,
                              h.uid, arg)
          /\ UNCHANGED <<now, sessions>>)

\* a request to a writing route with header key.  Flush and commit of plan h; an
\* IntegrityError at flush ends the request with status 500 and db.close() rolls
\* the transaction back
Request(key, op, arg, h) ==
    Authorized(key, op, arg,
       LET r == ExecAll(DB, h.stmts)
       IN /\ Persist(IF h.status = 200 /\ r.ok THEN r.db ELSE DB)
          /\ seq' = h.seq
          /\ resp' = Response(op, IF h.status = 200 /\ ~ r.ok THEN 500 ELSE h.status,
                              h.uid, arg)
          /\ UNCHANGED <<now, sessions>>)

\* a request with the header of the one before: in the specifications that are
\* not about the key no key is configured and no request carries one
Serve(op, arg, h) == Request(x_api_key, op, arg, h)

\* schemas.RepairCreate: hull_id and date_opened are required
RepairCreate(hull_id, date_opened, location) ==
    [hull_id |-> hull_id, date_opened |-> date_opened, location |-> location,
     ticket |-> None, technicians |-> None, program |-> None,
     service_type |-> None, root_cause_cat |-> None, issue_desc |-> None]

CreatePayloads ==
    {RepairCreate(h, <<2024, 1, 31>>, Some("Miami")) : h \in Hulls}   \* dates are <<y, m, d>>

\* one payload, for the specifications that are not about the repair's fields
PlainCreatePayloads == {RepairCreate("R132", <<2024, 1, 31>>, None)}

\* the dumped RepairSnapshot sub-objects: {} and two with fields set
SnapshotPayloads ==
    { [f \in {} |-> None],
      [f \in {"compass"} |-> Some(TRUE)],
      [f \in {"camera", "radar"} |-> IF f = "camera" THEN Some("CAM-1") ELSE Some(TRUE)] }

\* model_dump(exclude_unset=True) of a RepairUpdate: a dict with the fields the
\* client set.  loc, tic and snp are {} for a field left unset, else {value}
RepairUpdate(loc, tic, snp) ==
    [f \in {g \in {"location"} : loc # {}} \cup {g \in {"ticket"} : tic # {}}
           \cup {g \in {"snapshot"} : snp # {}} |->
        CASE f = "location" -> CHOOSE v \in loc : TRUE
          [] f = "ticket" -> CHOOSE v \in tic : TRUE
          [] f = "snapshot" -> CHOOSE v \in snp : TRUE]

\* location unset or null, ticket unset or T-1, snapshot unset, null or an object
PatchPayloads ==
    {RepairUpdate(loc, tic, snp) :
        loc \in {{}, {None}}, tic \in {{}, {Some("T-1")}},
        snp \in {{}, {None}} \cup {{Some(sn)} : sn \in SnapshotPayloads}}

\* payloads that touch only the ticket, for the specifications with every handler
PlainPatchPayloads == {[f \in {"ticket"} |-> Some("T-1")]}

\* schemas.ComponentChangeCreate and ConfigChangeCreate, dumped
ComponentChangePayloads ==
    {[subsystem |-> "ICU", component |-> "board", old_serial |-> None,
      new_serial |-> Some("SN-2"), old_fw |-> None, new_fw |-> None,
      reason |-> None, performed_by |-> None, change_date |-> None]}

ConfigChangePayloads ==
    {[system |-> "nav", parameter |-> "gain", old_value |-> Some("1"),
      new_value |-> Some("2"), reason |-> None]}

\* schemas.ChecklistUpdate.states: maps from some of the codes to booleans
ChecklistStates ==
    UNION {[d -> BOOLEAN] : d \in {e \in SUBSET Codes : Cardinality(e) <= 2}}

\* the repair_uid path parameters: every repair's, and one no repair has
KnownUids == {r.repair_uid : r \in repairs}

RepairUids == KnownUids \cup {UnknownUid}

\* change ids tried: every id handed out so far and the next one
ChangeIds(table) == 1..(seq[table] + 1)

CreateRepairOf(payloads) ==
    \E p \in payloads, b \in RandomBytes :
       /\ seq.repairs < MaxRepairs
       /\ Serve("create_repair", p, handle_create_repair(DB, p, seq, now, b))

PatchRepairOf(uids, payloads) ==
    \E u \in uids, p \in payloads :
       Serve("patch_repair", p, handle_patch_repair(DB, u, p, seq, now))

AddChangeOf(op, table, uids, payloads) ==
    \E u \in uids, p \in payloads :
       /\ seq[table] < MaxChanges
       /\ Serve(op, p, handle_add_change(DB, table, u, p, seq, now))

RemoveChangeOf(op, table) ==
    \E id \in ChangeIds(table) :
       Serve(op, id, handle_remove_change(DB, table, id, seq))

UpdateChecklistOf(uids, maps) ==
    \E u \in uids, m \in maps :
       Serve("update_checklist", m, handle_update_checklist(DB, u, m, seq, now))

\* the response of a read: out is the response body
ReadResponse(op, status, uid, arg, out) ==
    [op |-> op, status |-> status, uid |-> uid, arg |-> arg, at |-> now,
     out |-> out]

\* the rows of a child table that belong to a repair
ChildRows(rows, rep) == {c \in rows : c.repair_id = rep.id}

\* GET /repairs/{repair_uid} with header key
GetRepairWith(key, uids) ==
    \E u \in uids :
       Authorized(key, "get_repair", <<>>,
          LET found == get_repair_by_uid(DB, u)
          IN /\ IF found = {}
                THEN resp' = ReadResponse("get_repair", 404, u, <<>>, <<>>)
                ELSE LET rep == CHOOSE r \in found : TRUE
                     IN \E comps \in relationship(ChildRows(component_changes, rep)),
                           confs \in relationship(ChildRows(config_changes, rep)),
                           checks \in relationship(ChildRows(repair_checklist, rep)) :
                           resp' = ReadResponse("get_repair", 200, u, <<>>,
                                      repair_to_out(DB, rep, comps, confs, checks))
             /\ UNCHANGED <<tables, seq, now, sessions>>)

GetRepairOf(uids) == GetRepairWith(x_api_key, uids)

\* the aggregate views repair_to_out may give for a repair
RepairViews(db, rep) ==
    {repair_to_out(db, rep, comps, confs, checks) :
        comps \in relationship(ChildRows(db.component_changes, rep)),
        confs \in relationship(ChildRows(db.config_changes, rep)),
        checks \in relationship(ChildRows(db.repair_checklist, rep))}

\* the query parameters of GET /repairs.  Date strings are sequences of
\* characters
DateString(y, m, d) == ZeroPad(y, 4) \o <<"-">> \o ZeroPad(m, 2) \o <<"-">> \o ZeroPad(d, 2)

ListQueries ==
    [hull_id : {None, Some("R132"), Some("R13")},
     date_from : {None, Some(DateString(2024, 1, 1))},
     date_to : {None, Some(DateString(2024, 1, 31)),
                Some(<<"t", "o", "d", "a", "y">>)},
     limit : {1, 50}]

\* GET /repairs with header key
ListRepairsWith(key, queries) ==
    \E q \in queries :
       Authorized(key, "list_repairs", q,
          LET l == list_repairs(DB, q.hull_id, q.date_from, q.date_to, q.limit)
          IN /\ IF l.raised # ""
                THEN resp' = ReadResponse("list_repairs", 500, <<>>, q, <<>>)
                ELSE \E reps \in l.rows :
                        \E out \in [1..Len(reps) ->
                                      UNION {RepairViews(DB, r) : r \in repairs}] :
                           /\ \A i \in 1..Len(reps) :
                                 \E r \in get_repair_by_uid(DB, reps[i].repair_uid) :
                                    out[i] \in RepairViews(DB, r)
                           /\ resp' = ReadResponse("list_repairs", 200, <<>>, q, out)
             /\ UNCHANGED <<tables, seq, now, sessions>>)

ListRepairs == ListRepairsWith(x_api_key, ListQueries)

\* mutant of RepairUpdate_validate: the model keeps the keys it does not declare
RepairUpdate_validate_allow_extra(body) == body

\* the request body read as a schemas.RepairUpdate and dumped with
\* exclude_unset: the keys the model declares, the others are ignored
RepairUpdate_validate(body) ==
    [f \in DOMAIN body \cap (RepairUpdateFields \cup {"snapshot"}) |-> body[f]]

\* JSON bodies of PATCH /repairs/{repair_uid}: the ticket alone, and the ticket
\* beside keys named like the identity columns of a repair
PatchBodies ==
    {[f \in {"ticket"} |-> Some("T-1")],
     [f \in {"ticket", "repair_uid", "vessel_id", "date_opened"} |->
         CASE f = "ticket" -> Some("T-2")
           [] f = "repair_uid" -> UnknownUid
           [] f = "vessel_id" -> 99
           [] f = "date_opened" -> <<2030, 1, 1>>]}

\* PATCH /repairs/{repair_uid} with a body as the client sent it
PatchRepairBody ==
    \E u \in KnownUids, b \in PatchBodies :
       Serve("patch_repair", b,
             handle_patch_repair(DB, u, RepairUpdate_validate(b), seq, now))

-----------------------------------------------------------------------------
(* Specification Spec: every handler, requests served one at a time *)

CreateRepair == CreateRepairOf(PlainCreatePayloads)

PatchRepair == PatchRepairOf(RepairUids, PlainPatchPayloads)

AddComponentChange ==
    AddChangeOf("add_component_change", "component_changes", RepairUids,
                ComponentChangePayloads)

RemoveComponentChange ==
    RemoveChangeOf("remove_component_change", "component_changes")

AddConfigChange ==
    AddChangeOf("add_config_change", "config_changes", RepairUids,
                ConfigChangePayloads)

RemoveConfigChange == RemoveChangeOf("remove_config_change", "config_changes")

UpdateChecklist == UpdateChecklistOf(RepairUids, {[c \in {"A"} |-> TRUE]})

Next ==
    \/ CreateRepair
    \/ PatchRepair
    \/ AddComponentChange
    \/ RemoveComponentChange
    \/ AddConfigChange
    \/ RemoveConfigChange
    \/ UpdateChecklist

Spec == Init /\ [][Next]_vars

-----------------------------------------------------------------------------
(* Specification SpecRepairs: creating and updating repairs *)

CreateRepairAny == CreateRepairOf(CreatePayloads)

PatchRepairAny == PatchRepairOf(KnownUids, PatchPayloads)

NextRepairs ==
    \/ CreateRepairAny
    \/ PatchRepairAny
    \/ Tick

SpecRepairs == Init /\ [][NextRepairs]_vars

-----------------------------------------------------------------------------
(* Specification SpecChecklist: the checklist of a repair *)

UpdateChecklistAny == UpdateChecklistOf(KnownUids, ChecklistStates)

NextChecklist ==
    \/ CreateRepair
    \/ UpdateChecklistAny
    \/ Tick

SpecChecklist == Init /\ [][NextChecklist]_vars

-----------------------------------------------------------------------------
(* Specification SpecChecklistView: the checklist of a repair and its       *)
(* aggregate view                                                           *)

GetRepair == GetRepairOf(RepairUids)

NextChecklistView ==
    \/ CreateRepair
    \/ UpdateChecklistAny
    \/ GetRepair

SpecChecklistView == Init /\ [][NextChecklistView]_vars

-----------------------------------------------------------------------------
(* Specification SpecChanges: the change log of a repair and its aggregate  *)
(* view                                                                     *)

AddComponentChangeKnown ==
    AddChangeOf("add_component_change", "component_changes", KnownUids,
                ComponentChangePayloads)

AddConfigChangeKnown ==
    AddChangeOf("add_config_change", "config_changes", KnownUids,
                ConfigChangePayloads)

GetRepairKnown == GetRepairOf(KnownUids)

NextChanges ==
    \/ CreateRepairAny
    \/ AddComponentChangeKnown
    \/ RemoveComponentChange
    \/ AddConfigChangeKnown
    \/ RemoveConfigChange
    \/ GetRepairKnown
    \/ Tick

SpecChanges == Init /\ [][NextChanges]_vars

-----------------------------------------------------------------------------
(* Specification SpecList: listing repairs by hull id and date range *)

\* repairs opened before, at the end of and after January 2024
DatedCreatePayloads ==
    {RepairCreate("R132", d, None) : d \in {<<2024, 1, 31>>, <<2024, 2, 1>>}}
       \cup {RepairCreate("R200", d, None) : d \in {<<2023, 12, 31>>, <<2024, 1, 31>>}}

CreateRepairDated == CreateRepairOf(DatedCreatePayloads)

NextList ==
    \/ CreateRepairDated
    \/ ListRepairs

SpecList == Init /\ [][NextList]_vars

-----------------------------------------------------------------------------
(* Specification SpecKey: every route, with and without a configured        *)
(* API_KEY, the requests with and without an X-API-Key header               *)

\* API_KEY unset, set to the empty string, set to a secret
ApiKeys == {None, Some(""), Some("k1")}

\* no header, the secret, another value
KeyHeaders == {None, Some("k1"), Some("k2")}

InitKey ==
    /\ vessels = {}
    /\ repairs = {}
    /\ component_changes = {}
    /\ config_changes = {}
    /\ repair_checklist = {}
    /\ seq = [vessels |-> 0, repairs |-> 0,
              component_changes |-> 0, config_changes |-> 0]
    /\ now = 0
    /\ sessions = [s \in Slots |-> Idle]
    /\ resp = NoResponse
    /\ API_KEY \in ApiKeys
    /\ x_api_key = None

KeyedCreateRepair ==
    \E key \in KeyHeaders, p \in PlainCreatePayloads :
       /\ seq.repairs < MaxRepairs
       /\ Request(key, "create_repair", p,
                  handle_create_repair(DB, p, seq, now, <<10, 188, 255>>))

KeyedListRepairs ==
    \E key \in KeyHeaders :
       ListRepairsWith(key, {[hull_id |-> None, date_from |-> None,
                              date_to |-> None, limit |-> 50]})

KeyedGetRepair == \E key \in KeyHeaders : GetRepairWith(key, KnownUids)

KeyedPatchRepair ==
    \E key \in KeyHeaders, u \in KnownUids, p \in PlainPatchPayloads :
       Request(key, "patch_repair", p, handle_patch_repair(DB, u, p, seq, now))

KeyedAddChange(op, table, payloads) ==
    \E key \in KeyHeaders, u \in KnownUids, p \in payloads :
       /\ seq[table] < MaxChanges
       /\ Request(key, op, p, handle_add_change(DB, table, u, p, seq, now))

KeyedRemoveChange(op, table) ==
    \E key \in KeyHeaders, id \in 1..seq[table] :
       Request(key, op, id, handle_remove_change(DB, table, id, seq))

KeyedAddComponentChange ==
    KeyedAddChange("add_component_change", "component_changes",
                   ComponentChangePayloads)

KeyedRemoveComponentChange ==
    KeyedRemoveChange("remove_component_change", "component_changes")

KeyedAddConfigChange ==
    KeyedAddChange("add_config_change", "config_changes", ConfigChangePayloads)

KeyedRemoveConfigChange ==
    KeyedRemoveChange("remove_config_change", "config_changes")

\* GET /checklist-items
KeyedChecklistItems ==
    \E key \in KeyHeaders :
       Authorized(key, "checklist_items", <<>>,
          /\ \E items \in get_checklist_items :
                resp' = ReadResponse("checklist_items", 200, <<>>, <<>>,
                           [i \in 1..Len(items) |->
                               [code |-> items[i].code, label |-> items[i].label,
                                sort_order |-> items[i].sort_order,
                                active |-> items[i].active]])
          /\ UNCHANGED <<tables, seq, now, sessions>>)

KeyedUpdateChecklist ==
    \E key \in KeyHeaders, u \in KnownUids :
       Request(key, "update_checklist", [c \in {"A"} |-> TRUE],
               handle_update_checklist(DB, u, [c \in {"A"} |-> TRUE], seq, now))

\* GET /health: no dependency, no session
Health ==
    \E key \in KeyHeaders :
       /\ \A s \in Slots : sessions[s].pc = "idle"
       /\ x_api_key' = key
       /\ resp' = Response("health", 200, <<>>, <<>>)
       /\ UNCHANGED <<tables, seq, now, sessions, API_KEY>>

NextKey ==
    \/ KeyedCreateRepair
    \/ KeyedListRepairs
    \/ KeyedGetRepair
    \/ KeyedPatchRepair
    \/ KeyedAddComponentChange
    \/ KeyedRemoveComponentChange
    \/ KeyedAddConfigChange
    \/ KeyedRemoveConfigChange
    \/ KeyedChecklistItems
    \/ KeyedUpdateChecklist
    \/ Health

SpecKey == InitKey /\ [][NextKey]_vars

-----------------------------------------------------------------------------
(* Specification SpecIdentity: updates, change-log and checklist operations *)
(* on existing repairs                                                      *)

UpdateChecklistKnown == UpdateChecklistOf(KnownUids, {[c \in {"A"} |-> TRUE]})

NextIdentity ==
    \/ CreateRepair
    \/ PatchRepairBody
    \/ AddComponentChangeKnown
    \/ RemoveComponentChange
    \/ AddConfigChangeKnown
    \/ RemoveConfigChange
    \/ UpdateChecklistKnown

SpecIdentity == Init /\ [][NextIdentity]_vars

-----------------------------------------------------------------------------
(* Specification SpecTx: requests in flight at the same time, each in its   *)
(* own session and transaction.  A request reads the committed store, sends *)
(* its statements inside its transaction, and commits; it may fail at any   *)
(* point, and db.close() then rolls its transaction back.                   *)

\* the primary key a statement writes
StmtKey(st) == IF st.t = "insert" THEN PrimaryKey(st.table, st.row) ELSE st.pk

\* two statements of different transactions that cannot both be in flight: they
\* write the same row, or insert the same value of a unique column.  The second
\* waits for the first's transaction to end.
Conflict(st1, st2) ==
    /\ st1.table = st2.table
    /\ \/ StmtKey(st1) = StmtKey(st2)
       \/ /\ st1.t = "insert" /\ st2.t = "insert"
          /\ \/ st1.table = "vessels" /\ st1.row.hull_id = st2.row.hull_id
             \/ st1.table = "repairs" /\ st1.row.repair_uid = st2.row.repair_uid

\* get_db: a new session; the handler runs up to its first statement.  A handler
\* that raises before it (404, AttributeError) ends the request at once.
Begin(s, op, arg, h) ==
    /\ sessions[s].pc = "idle"
    /\ seq' = h.seq
    /\ IF h.status = 200
       THEN /\ sessions' = [sessions EXCEPT ![s] =
                              [pc |-> "open", op |-> op, arg |-> arg, uid |-> h.uid,
                               at |-> now, stmts |-> h.stmts, tx |-> <<>>]]
            /\ UNCHANGED resp
       ELSE /\ resp' = Response(op, h.status, h.uid, arg)
            /\ UNCHANGED sessions
    /\ UNCHANGED <<tables, now, keys>>

\* db.flush(): the next statement of session s runs inside its transaction.
\* A constraint violation raises IntegrityError: the request ends with status
\* 500 and db.close() rolls the transaction back.
Send(s) ==
    LET me == sessions[s]
        st == Head(me.stmts)
        view == ExecAll(DB, me.tx).db
        r == ExecStmt(view, st)
    IN /\ me.pc = "open"
       /\ me.stmts # <<>>
       /\ \A o \in Slots \ {s} :
             sessions[o].pc = "open" =>
                \A i \in 1..Len(sessions[o].tx) : ~ Conflict(st, sessions[o].tx[i])
       /\ IF r.ok
          THEN /\ sessions' = [sessions EXCEPT ![s].stmts = Tail(@),
                                              ![s].tx = Append(@, st)]
               /\ UNCHANGED resp
          ELSE /\ sessions' = [sessions EXCEPT ![s] = Idle]
               /\ resp' = [op |-> me.op, status |-> 500, uid |-> me.uid,
                           arg |-> me.arg, at |-> me.at]
       /\ UNCHANGED <<tables, seq, now, keys>>

\* db.commit(): the statements of the transaction become visible together
Commit(s) ==
    LET me == sessions[s]
    IN /\ me.pc = "open"
       /\ me.stmts = <<>>
       /\ Persist(ExecAll(DB, me.tx).db)
       /\ sessions' = [sessions EXCEPT ![s] = Idle]
       /\ resp' = [op |-> me.op, status |-> 200, uid |-> me.uid,
                   arg |-> me.arg, at |-> me.at]
       /\ UNCHANGED <<seq, now, keys>>

\* mutant of Abort: what the failed request had sent stays in the store
AbortNoRollback(s) ==
    LET me == sessions[s]
    IN /\ me.pc = "open"
       /\ Persist(ExecAll(DB, me.tx).db)
       /\ sessions' = [sessions EXCEPT ![s] = Idle]
       /\ resp' = [op |-> me.op, status |-> 500, uid |-> me.uid,
                   arg |-> me.arg, at |-> me.at]
       /\ UNCHANGED <<seq, now, keys>>

\* mutant of Abort: get_db without the finally clause, the session of a request
\* that raised is never closed
AbortLeak(s) ==
    LET me == sessions[s]
    IN /\ me.pc = "open"
       /\ resp' = [op |-> me.op, status |-> 500, uid |-> me.uid,
                   arg |-> me.arg, at |-> me.at]
       /\ UNCHANGED <<tables, seq, now, sessions, keys>>

\* a storage error (a lost connection, a failed commit): the request ends with
\* status 500 and db.close() rolls the transaction back
Abort(s) ==
    LET me == sessions[s]
    IN /\ me.pc = "open"
       /\ sessions' = [sessions EXCEPT ![s] = Idle]
       /\ resp' = [op |-> me.op, status |-> 500, uid |-> me.uid,
                   arg |-> me.arg, at |-> me.at]
       /\ UNCHANGED <<tables, seq, now, keys>>

BeginCreateRepair(s) ==
    \E p \in PlainCreatePayloads, b \in RandomBytes :
       /\ seq.repairs < MaxRepairs
       /\ Begin(s, "create_repair", p, handle_create_repair(DB, p, seq, now, b))

\* two maps that disagree on code A, one of them a batch of two rows
TxStates == {[c \in {"A"} |-> TRUE], [c \in {"A", "B"} |-> c = "B"]}

BeginUpdateChecklist(s) ==
    \E u \in KnownUids, m \in TxStates :
       Begin(s, "update_checklist", m, handle_update_checklist(DB, u, m, seq, now))

NextTx ==
    \/ \E s \in Slots : BeginCreateRepair(s)
    \/ \E s \in Slots : BeginUpdateChecklist(s)
    \/ \E s \in Slots : Send(s)
    \/ \E s \in Slots : Commit(s)
    \/ \E s \in Slots : Abort(s)

SpecTx == Init /\ [][NextTx]_vars

-----------------------------------------------------------------------------
(* Specification SpecRace: the requests of SpecTx in flight at the same     *)
(* time, with no storage error: a request ends by its own commit or by the  *)
(* IntegrityError of one of its statements                                  *)

NextRace ==
    \/ \E s \in Slots : BeginCreateRepair(s)
    \/ \E s \in Slots : BeginUpdateChecklist(s)
    \/ \E s \in Slots : Send(s)
    \/ \E s \in Slots : Commit(s)

SpecRace == Init /\ [][NextRace]_vars

-----------------------------------------------------------------------------
(* Specification SpecSessions: the ways a request can end, with requests in *)
(* flight at the same time: commit, not-found, an exception in the handler, *)
(* an IntegrityError at flush, a storage error                              *)

\* an update of the ticket, and one with a snapshot object
SessionPatchPayloads ==
    {RepairUpdate({}, {Some("T-1")}, {}),
     RepairUpdate({}, {Some("T-1")}, {Some([f \in {"compass"} |-> Some(TRUE)])})}

BeginPatchRepair(s) ==
    \E u \in RepairUids, p \in SessionPatchPayloads :
       Begin(s, "patch_repair", p, handle_patch_repair(DB, u, p, seq, now))

NextSessions ==
    \/ \E s \in Slots : BeginCreateRepair(s)
    \/ \E s \in Slots : BeginPatchRepair(s)
    \/ \E s \in Slots : Send(s)
    \/ \E s \in Slots : Commit(s)
    \/ \E s \in Slots : Abort(s)

SpecSessions == Init /\ [][NextSessions]_vars

-----------------------------------------------------------------------------
(* Properties.  A step that serves a request leaves the clock alone, and    *)
(* resp' is then the response of that request.                              *)

\* the repair with this repair_uid in a repairs table
RepairOf(reps, repair_uid) == CHOOSE r \in reps : r.repair_uid = repair_uid

\* this step serves a PATCH /repairs/{repair_uid} for an existing repair
PatchStep ==
    /\ now' = now
    /\ resp'.op = "patch_repair"
    /\ resp'.uid \in KnownUids

\* C1: updateRepair with a payload whose snapshot sub-object sets a subset S of
\* the nine snapshot fields succeeds, overwrites exactly the snapshot columns in
\* S and leaves every other snapshot column at its prior value.
C1_SnapshotMerge ==
    [][(PatchStep /\ "snapshot" \in DOMAIN resp'.arg) =>
          \A sn \in resp'.arg["snapshot"] :
             /\ resp'.status = 200
             /\ \A f \in SnapshotFields :
                   RepairOf(repairs', resp'.uid)[SnapshotColumn[f]] =
                      IF f \in DOMAIN sn THEN sn[f]
                      ELSE RepairOf(repairs, resp'.uid)[SnapshotColumn[f]]]_vars

\* C2: updateRepair on an existing repair sets exactly the top-level fields
\* present in the partial payload to the payload's values and leaves every
\* top-level field absent from the payload unchanged.
C2_TopLevelMerge ==
    [][PatchStep =>
          \A f \in RepairUpdateFields :
             RepairOf(repairs', resp'.uid)[f] =
                IF f \in DOMAIN resp'.arg THEN resp'.arg[f]
                ELSE RepairOf(repairs, resp'.uid)[f]]_vars

\* C2, for the payloads that reach db.flush() (no snapshot object with a field
\* set): the top-level merge as claimed, with status 200
C2_TopLevelMergeNoSnapshot ==
    [][(PatchStep /\ ~ Truthy(IF "snapshot" \in DOMAIN resp'.arg
                              THEN resp'.arg["snapshot"] ELSE None)) =>
          /\ resp'.status = 200
          /\ \A f \in RepairUpdateFields :
                RepairOf(repairs', resp'.uid)[f] =
                   IF f \in DOMAIN resp'.arg THEN resp'.arg[f]
                   ELSE RepairOf(repairs, resp'.uid)[f]]_vars

\* the rows of repair_checklist for one repair and one catalog code
ChecklistRows(rows, repair_id, code) ==
    {r \in rows : /\ r.repair_id = repair_id
                  /\ \E i \in ChecklistItems : i.code = code /\ i.id = r.item_id}

\* the codes of a submitted map that a catalog item has
KnownCodes(states) == {c \in DOMAIN states : by_code(c) # {}}

\* this step serves a PUT /repairs/{repair_uid}/checklist for an existing repair
ChecklistStep ==
    /\ now' = now
    /\ resp'.op = "update_checklist"
    /\ resp'.uid \in KnownUids

\* the last response is that of a checklist update of an existing repair
ChecklistDone == resp.op = "update_checklist" /\ resp.uid \in KnownUids

\* at most one row per (repair_id, item_id)
OneRowPerPair ==
    \A r1, r2 \in repair_checklist :
       (r1.repair_id = r2.repair_id /\ r1.item_id = r2.item_id) => r1 = r2

\* C3: there is at most one RepairChecklist row per (repair, checklist item);
\* applying {A: true}, also to a repair whose item A is already checked, succeeds
\* and leaves exactly one row for item A, with checked = true.
C3_OneRowPerPair ==
    /\ OneRowPerPair
    /\ (ChecklistDone /\ "A" \in DOMAIN resp.arg /\ resp.arg["A"]) =>
          /\ resp.status = 200
          /\ \E r \in repair_checklist :
                /\ r.checked
                /\ ChecklistRows(repair_checklist,
                                 RepairOf(repairs, resp.uid).id, "A") = {r}

\* C3 witness: {A: true} was applied at time 1, after the clock moved, and the
\* repair has one row, for item A, checked
C3_Witness ==
    /\ ChecklistDone /\ resp.status = 200 /\ resp.at = 1
    /\ resp.arg = [c \in {"A"} |-> TRUE]
    /\ \E r \in repair_checklist : r.checked /\ r.checked_at = Some(1)
    /\ Cardinality(repair_checklist) = 1

C5_UnknownCodes ==
    [][ChecklistStep =>
          /\ resp'.status = 200
          /\ \A r \in repair_checklist' \ repair_checklist :
                \E c \in KnownCodes(resp'.arg) :
                   r \in ChecklistRows(repair_checklist',
                                       RepairOf(repairs, resp'.uid).id, c)
          /\ Cardinality(repair_checklist') =
                Cardinality(repair_checklist)
                + Cardinality({c \in KnownCodes(resp'.arg) :
                                  ChecklistRows(repair_checklist,
                                      RepairOf(repairs, resp'.uid).id, c) = {}})
          /\ KnownCodes(resp'.arg) = {} => repair_checklist' = repair_checklist
          /\ \A c \in KnownCodes(resp'.arg) :
                \E r \in ChecklistRows(repair_checklist',
                                       RepairOf(repairs, resp'.uid).id, c) :
                   r.checked = resp'.arg[c]]_vars

\* C5 witness: {A: true, ZZZ: true} was applied and A's row is there
C5_Witness ==
    /\ ChecklistDone /\ resp.status = 200
    /\ resp.arg = [c \in {"A", "ZZZ"} |-> TRUE]
    /\ \E r \in repair_checklist : r.item_id = 1 /\ r.checked
    /\ Cardinality(repair_checklist) = 1

\* a statement of a checklist batch is in the table: the inserted row is there,
\* the updated row has the values set
Applied(rows, st) ==
    IF st.t = "insert" THEN st.row \in rows
    ELSE \E r \in rows : /\ <<r.repair_id, r.item_id>> = st.pk
                         /\ \A c \in DOMAIN st.set : r[c] = st.set[c]

\* C6: the row writes of one applyChecklistStates call are committed as one
\* transaction: the committed repair_checklist table changes only in a step
\* that commits one call, and then every statement of that call's batch is in
\* the table; a call that fails part-way leaves the table as it was.
C6_BatchAtomic ==
    [][repair_checklist' # repair_checklist =>
          \E s \in Slots :
             /\ sessions[s].pc = "open"
             /\ sessions[s].op = "update_checklist"
             /\ sessions'[s] = Idle
             /\ resp'.status = 200
             /\ \A o \in Slots \ {s} : sessions'[o] = sessions[o]
             /\ LET batch == sessions[s].tx \o sessions[s].stmts
                IN \A i \in 1..Len(batch) : Applied(repair_checklist', batch[i])]_vars

\* C6 witness: a batch of two rows was committed while another request was in
\* flight
C6_Witness ==
    /\ resp.op = "update_checklist" /\ resp.status = 200
    /\ DOMAIN resp.arg = {"A", "B"}
    /\ Cardinality(ChecklistRows(repair_checklist,
                                 RepairOf(repairs, resp.uid).id, "A")) = 1
    /\ Cardinality(ChecklistRows(repair_checklist,
                                 RepairOf(repairs, resp.uid).id, "B")) = 1
    /\ \E s \in Slots : sessions[s].pc = "open" /\ sessions[s].tx # <<>>

\* REP-<YYYYMMDD>-<6 hex chars>
IsRepairUid(u) ==
    /\ Len(u) = 19
    /\ SubSeq(u, 1, 4) = <<"R", "E", "P", "-">>
    /\ \A i \in 5..12 : DigitValue(u[i]) < 10
    /\ 10 * DigitValue(u[9]) + DigitValue(u[10]) \in 1..12
    /\ 10 * DigitValue(u[11]) + DigitValue(u[12]) \in 1..31
    /\ u[13] = "-"
    /\ \A i \in 14..19 :
          \/ DigitValue(u[i]) < 10
          \/ u[i] \in {"A", "B", "C", "D", "E", "F"}

\* get_or_create_vessel called for hull_id, its flush executed: [vessel, db, ids]
VesselCall(db, hull_id, ids) ==
    LET g == get_or_create_vessel(db, hull_id, ids + 1, now)
    IN [vessel |-> g.vessel, db |-> ExecAll(db, g.stmts).db,
        ids |-> ids + Len(g.stmts)]

\* C7: getOrCreateVessel called twice in sequence with the same hull id returns
\* the same vessel and leaves exactly one Vessel row with that hull id; called
\* with two different hull ids it returns two distinct vessels; no two Vessel
\* rows share a hull_id.
C7_VesselPerHull ==
    /\ \A v1, v2 \in vessels : v1.hull_id = v2.hull_id => v1 = v2
    /\ \A r1, r2 \in repairs :
          \A v1, v2 \in vessels :
             (v1.id = r1.vessel_id /\ v2.id = r2.vessel_id) =>
                (v1.hull_id = v2.hull_id <=> r1.vessel_id = r2.vessel_id)
    /\ \A h1, h2 \in Hulls :
          LET c1 == VesselCall(DB, h1, seq.vessels)
              c2 == VesselCall(c1.db, h2, c1.ids)
          IN /\ c1.vessel.hull_id = h1 /\ c2.vessel.hull_id = h2
             /\ c1.vessel \in c1.db.vessels /\ c2.vessel \in c2.db.vessels
             /\ h1 = h2 =>
                   /\ c2.vessel = c1.vessel
                   /\ c2.db = c1.db
                   /\ Cardinality({v \in c2.db.vessels : v.hull_id = h1}) = 1
             /\ h1 # h2 => c2.vessel.id # c1.vessel.id

\* C7 witness: two repairs were created for one hull id and share the one vessel
C7_Witness ==
    /\ Cardinality(repairs) = 2
    /\ Cardinality(vessels) = 1
    /\ resp.op = "create_repair" /\ resp.status = 200

\* C8: a repair that createRepair returns has a repair_uid of the form
\* REP-<YYYYMMDD>-<6 hex chars> that no other repair has, also when the payloads
\* are identical; no two repairs share a repair_uid.
C8_RepairUid ==
    /\ \A r \in repairs : IsRepairUid(r.repair_uid)
    /\ \A r1, r2 \in repairs : r1.repair_uid = r2.repair_uid => r1 = r2
    /\ (resp.op = "create_repair" /\ resp.status = 200) =>
          /\ IsRepairUid(resp.uid)
          /\ Cardinality({r \in repairs : r.repair_uid = resp.uid}) = 1

\* C8 witness: two repairs created from the same payload on the same day
C8_Witness ==
    /\ resp.op = "create_repair" /\ resp.status = 200
    /\ \E r1, r2 \in repairs :
          /\ r1.id # r2.id
          /\ r1.vessel_id = r2.vessel_id
          /\ r1.created_at = r2.created_at
          /\ r1.location = r2.location /\ r1.ticket = r2.ticket
          /\ r1.date_opened = r2.date_opened

\* the store after a step
DBNext == [vessels |-> vessels', repairs |-> repairs',
           component_changes |-> component_changes',
           config_changes |-> config_changes',
           repair_checklist |-> repair_checklist']

\* C9: updateRepair, addComponentChange, addConfigChange and
\* applyChecklistStates called with a repair_uid that matches no repair end in
\* not-found and leave the store unchanged; every ComponentChange, ConfigChange
\* and RepairChecklist row references an existing Repair.
C9_NotFound ==
    /\ [](/\ (/\ resp.op \in {"patch_repair", "add_component_change",
                              "add_config_change", "update_checklist"}
              /\ resp.uid \notin KnownUids) => resp.status = 404
          /\ \A c \in component_changes \cup config_changes :
                \E r \in repairs : r.id = c.repair_id
          /\ \A c \in repair_checklist : \E r \in repairs : r.id = c.repair_id)
    /\ [][(/\ resp'.op \in {"patch_repair", "add_component_change",
                            "add_config_change", "update_checklist"}
           /\ resp'.uid \notin KnownUids) => (DBNext = DB /\ seq' = seq)]_vars

\* C9 witness: a change was added to an unknown repair_uid while a repair with a
\* component change and a checklist row exists
C9_Witness ==
    /\ resp.op = "add_config_change" /\ resp.status = 404
    /\ resp.uid = UnknownUid
    /\ component_changes # {} /\ repair_checklist # {}

\* C10: removeComponentChange(id) and removeConfigChange(id) with an id that
\* matches no row report not-found (no storage error) and leave the store
\* unchanged; with an id that matches a row they remove exactly that row, report
\* success and leave every other change row and every repair unchanged.
C10_RemoveChange ==
    [][\A table \in {"component_changes", "config_changes"} :
          resp'.op = (IF table = "component_changes"
                      THEN "remove_component_change" ELSE "remove_config_change") =>
             LET hit == {c \in DB[table] : c.id = resp'.arg}
             IN IF hit = {}
                THEN resp'.status = 404 /\ DBNext = DB
                ELSE /\ resp'.status = 200
                     /\ Cardinality(hit) = 1
                     /\ DBNext = [DB EXCEPT ![table] = @ \ hit]]_vars

\* C10 witness: one of two component changes was removed and the other is there
C10_Witness ==
    /\ resp.op = "remove_component_change" /\ resp.status = 200
    /\ seq.component_changes = 2
    /\ Cardinality(component_changes) = 1
    /\ config_changes # {}

\* the checklist map the rows of a repair stand for: the catalog codes that have
\* a row, each with the row's checked value
ExpectedChecklist(db, repair_uid) ==
    LET id == RepairOf(db.repairs, repair_uid).id
        codes == {c \in {i.code : i \in ChecklistItems} :
                     ChecklistRows(db.repair_checklist, id, c) # {}}
    IN [c \in codes |->
          (CHOOSE r \in ChecklistRows(db.repair_checklist, id, c) : TRUE).checked]

\* C11: the checklist map of a repair's aggregate view has as keys exactly the
\* catalog codes that have a (repair, item) row, each mapped to the row's checked
\* value; a new repair has no keys, an applyChecklistStates call adds the known
\* codes it submits with the values it submits and keeps the other keys, and no
\* other operation changes the map: a code never submitted is absent.
C11_ChecklistView ==
    /\ [][(resp'.op = "get_repair" /\ resp'.status = 200) =>
             resp'.out.checklist = ExpectedChecklist(DB, resp'.uid)]_vars
    /\ [][\A r \in repairs' :
             LET new == ExpectedChecklist(DBNext, r.repair_uid)
             IN IF r.repair_uid \notin KnownUids
                THEN DOMAIN new = {}
                ELSE LET old == ExpectedChecklist(DB, r.repair_uid)
                     IN IF ChecklistStep /\ resp'.uid = r.repair_uid
                        THEN new = [c \in DOMAIN old \cup KnownCodes(resp'.arg) |->
                                      IF c \in KnownCodes(resp'.arg)
                                      THEN resp'.arg[c] ELSE old[c]]
                        ELSE new = old]_vars

\* C11 witness: the view of a repair whose code A was submitted, last as false,
\* and whose code B never was: A is false and B is absent
C11_Witness ==
    /\ resp.op = "get_repair" /\ resp.status = 200
    /\ DOMAIN resp.out.checklist = {"A"}
    /\ ~ resp.out.checklist["A"]
    /\ \E r \in repair_checklist :
          r.repair_id = RepairOf(repairs, resp.uid).id /\ r.item_id = 1 /\ ~ r.checked

\* the table an add or remove operation works on
ChangeTable(op) ==
    IF op \in {"add_component_change", "remove_component_change"}
    THEN "component_changes" ELSE "config_changes"

\* the list of an aggregate view holds exactly these rows, each once, with its
\* id, its created_at and its payload fields
ListsExactly(list, rows) ==
    /\ Len(list) = Cardinality(rows)
    /\ \A c \in rows :
          \E i \in 1..Len(list) :
             /\ list[i].id = c.id
             /\ list[i].created_at = c.created_at
             /\ \A f \in DOMAIN c.fields : list[i][f] = c.fields[f]

\* C12: the aggregate view of a repair lists exactly the component changes and
\* config changes of that repair that are in the store, and its hull_id is that
\* of the creation payload: createRepair gives the repair the vessel of the
\* payload's hull id and no change rows, an add operation adds one row for the
\* named repair with a fresh id (distinct among the changes of its kind), the
\* payload's fields and the current time as created_at, and apart from a remove
\* operation no step changes the change rows or the vessel of a repair.
C12_AggregateView ==
    /\ [](\A table \in {"component_changes", "config_changes"} :
             \A c1, c2 \in DB[table] :
                /\ c1.id = c2.id => c1 = c2
                /\ c1.id \in 1..seq[table])
    /\ [][(resp'.op = "get_repair" /\ resp'.status = 200) =>
             LET rep == RepairOf(repairs, resp'.uid)
             IN /\ \E v \in vessels :
                      v.id = rep.vessel_id /\ v.hull_id = resp'.out.hull_id
                /\ ListsExactly(resp'.out.component_changes,
                                ChildRows(component_changes, rep))
                /\ ListsExactly(resp'.out.config_changes,
                                ChildRows(config_changes, rep))]_vars
    /\ [][(now' = now /\ resp'.op = "create_repair" /\ resp'.status = 200) =>
             LET rep == RepairOf(repairs', resp'.uid)
             IN /\ rep \notin repairs
                /\ \E v \in vessels' :
                      v.id = rep.vessel_id /\ v.hull_id = resp'.arg.hull_id
                /\ ChildRows(component_changes', rep) = {}
                /\ ChildRows(config_changes', rep) = {}]_vars
    /\ [][(now' = now /\ resp'.status = 200
           /\ resp'.op \in {"add_component_change", "add_config_change"}) =>
             LET table == ChangeTable(resp'.op)
                 rep == RepairOf(repairs, resp'.uid)
             IN \E c \in DBNext[table] :
                   /\ c.repair_id = rep.id
                   /\ c.fields = resp'.arg
                   /\ c.created_at = now
                   /\ c.id = seq'[table] /\ c.id > seq[table]
                   /\ DBNext = [DB EXCEPT ![table] = @ \cup {c}]]_vars
    /\ [][/\ \A r \in repairs : r \in repairs'
          /\ \A v \in vessels : v \in vessels'
          /\ \A table \in {"component_changes", "config_changes"} :
                DBNext[table] # DB[table] =>
                   resp'.op \in {"add_component_change", "add_config_change",
                                 "remove_component_change",
                                 "remove_config_change"}]_vars

\* C12 witness: the view of a repair of hull R200 to which two component changes
\* and a config change were added, one component change removed since
C12_Witness ==
    /\ resp.op = "get_repair" /\ resp.status = 200
    /\ resp.out.hull_id = "R200"
    /\ seq.component_changes = 2
    /\ Len(resp.out.component_changes) = 1
    /\ Len(resp.out.config_changes) = 1
    /\ resp.out.config_changes[1].created_at = 1

\* a DATE <<y, m, d>> as the number yyyymmdd
DayNumber(d) == 10000 * d[1] + 100 * d[2] + d[3]

\* does the repair pass the filters of query q, the dates read as day numbers
Passes(r, q) ==
    /\ TruthyStr(q.hull_id) =>
          \E v \in vessels : v.id = r.vessel_id /\ q.hull_id = {v.hull_id}
    /\ \A s \in q.date_from : \A f \in date_in(s) : DayNumber(f) <= DayNumber(r.date_opened)
    /\ \A s \in q.date_to : \A t \in date_in(s) : DayNumber(r.date_opened) <= DayNumber(t)

\* C13: listRepairs with a date range returns only repairs opened within the
\* range, both ends inclusive, and with a hull id only repairs whose vessel has
\* exactly that hull id; when the repairs that pass are no more than the limit
\* all of them are returned (so one opened exactly on `to` is included), and the
\* result is ordered by date_opened descending.
C13_ListRepairs ==
    [][(resp'.op = "list_repairs" /\ resp'.status = 200) =>
          LET q == resp'.arg
              out == resp'.out
              hits == {r \in repairs : Passes(r, q)}
          IN /\ \A i \in 1..Len(out) :
                   \E r \in hits : r.repair_uid = out[i].repair_uid
             /\ \A i, j \in 1..Len(out) :
                   /\ out[i].repair_uid = out[j].repair_uid => i = j
                   /\ i < j => DayNumber(out[j].date_opened) <= DayNumber(out[i].date_opened)
             /\ Len(out) = IF Cardinality(hits) < q.limit
                           THEN Cardinality(hits) ELSE q.limit]_vars

\* C13 witness: with the range [2024-01-01, 2024-01-31] and a repair opened on
\* 2024-01-31 and one on 2024-02-01 in the store, the list holds the first only
C13_Witness ==
    /\ resp.op = "list_repairs" /\ resp.status = 200
    /\ resp.arg.date_from = Some(DateString(2024, 1, 1))
    /\ resp.arg.date_to = Some(DateString(2024, 1, 31))
    /\ resp.arg.limit = 50
    /\ \E r \in repairs : r.date_opened = <<2024, 2, 1>>
    /\ Len(resp.out) = 1
    /\ resp.out[1].date_opened = <<2024, 1, 31>>

\* C14: when API_KEY is configured (set and not empty), a request to any route
\* other than /health whose X-API-Key header is missing or differs from it is
\* rejected with 401 and leaves the store unchanged; /health answers 200 whatever
\* the header; when API_KEY is not configured no request is answered 401.  Every
\* step is a request: resp' is its response and x_api_key' its header.
C14_ApiKey ==
    [][/\ (resp'.op # "health" /\ TruthyStr(API_KEY) /\ x_api_key' # API_KEY) =>
             (resp'.status = 401 /\ DBNext = DB /\ seq' = seq)
       /\ resp'.op = "health" => resp'.status = 200
       /\ ~ TruthyStr(API_KEY) => resp'.status # 401
       /\ API_KEY' = API_KEY]_vars

\* C14 witness: with the secret k1 configured, a delete of an existing component
\* change that carried the header k2 was rejected and the row is still there
C14_Witness ==
    /\ API_KEY = Some("k1") /\ x_api_key = Some("k2")
    /\ resp.op = "remove_component_change" /\ resp.status = 401
    /\ \E c \in component_changes : c.id = resp.arg

\* C15: updateRepair is all-or-nothing: a call that fails, also after payload
\* fields were assigned to the repair object, leaves the persisted repair (and
\* the whole store) as it was before the call.
C15_UpdateAllOrNothing ==
    [][(PatchStep /\ resp'.status # 200) =>
          /\ RepairOf(repairs', resp'.uid) = RepairOf(repairs, resp'.uid)
          /\ DBNext = DB]_vars

\* C15 witness: a payload that set location to null and carried a snapshot
\* object failed after location was assigned, and the repair still has its
\* location
C15_Witness ==
    /\ resp.op = "patch_repair" /\ resp.status = 500
    /\ "location" \in DOMAIN resp.arg /\ resp.arg["location"] = None
    /\ "snapshot" \in DOMAIN resp.arg
    /\ RepairOf(repairs, resp.uid).location = Some("Miami")

\* C16: createRepair requests that name the same hull id and run concurrently
\* do not fail (a request fails only when its repair_uid is already taken), no
\* two Vessel rows share a hull id, and every repair references the vessel of
\* the hull id it was created for.
C16_ConcurrentCreate ==
    /\ (resp.op = "create_repair" /\ resp.status # 200) =>
          \E r \in repairs : r.repair_uid = resp.uid
    /\ \A v1, v2 \in vessels : v1.hull_id = v2.hull_id => v1 = v2
    /\ (resp.op = "create_repair" /\ resp.status = 200) =>
          \E v \in vessels :
             /\ v.hull_id = resp.arg.hull_id
             /\ RepairOf(repairs, resp.uid).vessel_id = v.id

\* this step commits the applyChecklistStates request of session s
ChecklistCommit(s) ==
    /\ sessions[s].pc = "open"
    /\ sessions[s].op = "update_checklist"
    /\ sessions'[s] = Idle
    /\ resp'.status = 200

\* C17: applyChecklistStates requests for the same repair and code that run
\* concurrently both complete, there is one row per (repair, item), and when a
\* request commits, the row of each catalog code it submitted has the checked
\* value it submitted and the checked_at of that request.
C17_ConcurrentChecklist ==
    /\ []((resp.op = "update_checklist" /\ resp.uid \in KnownUids) =>
             resp.status = 200)
    /\ []OneRowPerPair
    /\ [][\A s \in Slots :
             ChecklistCommit(s) =>
                \A c \in KnownCodes(sessions[s].arg) :
                   \E r \in ChecklistRows(repair_checklist',
                               RepairOf(repairs, sessions[s].uid).id, c) :
                      /\ r.checked = sessions[s].arg[c]
                      /\ r.checked_at = IF sessions[s].arg[c]
                                        THEN Some(sessions[s].at) ELSE None]_vars

\* C18: createRepair persists the vessel it creates and the repair together: a
\* call that fails, also after its vessel was inserted in the session, leaves
\* the store as it was, and every persisted vessel has a repair.
C18_VesselWithRepair ==
    /\ [](\A v \in vessels : \E r \in repairs : r.vessel_id = v.id)
    /\ [][(now' = now /\ resp'.op = "create_repair" /\ resp'.status # 200) =>
             DBNext = DB]_vars

\* C18 witness: a createRepair for the new hull R200 drew a vessel id, failed on
\* the repair_uid of its repair, and no vessel R200 is in the store
C18_Witness ==
    /\ resp.op = "create_repair" /\ resp.status = 500
    /\ resp.arg.hull_id = "R200"
    /\ \E r \in repairs : r.repair_uid = resp.uid
    /\ seq.vessels = 2
    /\ \A v \in vessels : v.hull_id = "R132"

\* C19: a request that ends leaves no session open and no uncommitted write
\* behind.  A step that answers a request either served a request that raised
\* before its first statement (no open session is that request's, the store is
\* unchanged), or closes the session of the request it answers and no other:
\* the store then takes the statements of that session if it committed and is
\* unchanged if it failed.
C19_SessionRelease ==
    [][resp' # resp =>
          \/ /\ sessions' = sessions
             /\ \A s \in Slots :
                   sessions[s].pc = "open" =>
                      ~ (/\ sessions[s].op = resp'.op
                         /\ sessions[s].uid = resp'.uid
                         /\ sessions[s].arg = resp'.arg)
             /\ resp'.status \in {404, 500}
             /\ DBNext = DB
          \/ \E s \in Slots :
                /\ sessions[s].pc = "open"
                /\ sessions'[s] = Idle
                /\ \A o \in Slots \ {s} : sessions'[o] = sessions[o]
                /\ resp'.op = sessions[s].op /\ resp'.uid = sessions[s].uid
                /\ resp'.arg = sessions[s].arg
                /\ IF resp'.status = 200
                   THEN /\ sessions[s].stmts = <<>>
                        /\ DBNext = ExecAll(DB, sessions[s].tx).db
                   ELSE DBNext = DB]_vars

\* C19 witness: a request that had sent a statement ended in an error while
\* another request was in flight; its statement is not in the store
C19_Witness ==
    /\ resp.op = "patch_repair" /\ resp.status = 500
    /\ resp.uid \in KnownUids
    /\ "snapshot" \notin DOMAIN resp.arg
    /\ RepairOf(repairs, resp.uid).ticket = None
    /\ \E s \in Slots : sessions[s].pc = "open"

\* C20: the aggregate view lists the component changes and the config changes of
\* a repair in creation order, that is by ascending id (ids are handed out in
\* creation order).
C20_CreationOrder ==
    [][(resp'.op = "get_repair" /\ resp'.status = 200) =>
          \A kind \in {"component_changes", "config_changes"} :
             \A i, j \in 1..Len(resp'.out[kind]) :
                i < j => /\ resp'.out[kind][i].id < resp'.out[kind][j].id
                         /\ resp'.out[kind][i].created_at
                               <= resp'.out[kind][j].created_at]_vars

\* C21: no operation changes the identity of an existing repair: in every step
\* each repair keeps its row id, its repair_uid, its vessel (whose hull id does
\* not change either) and its date_opened, whatever the update payload holds;
\* a repair is created with the repair_uid returned, the vessel of the payload's
\* hull id and the payload's date_opened.
C21_IdentityKept ==
    /\ [][\A r \in repairs :
             \E r2 \in repairs' :
                /\ r2.id = r.id
                /\ r2.repair_uid = r.repair_uid
                /\ r2.vessel_id = r.vessel_id
                /\ r2.date_opened = r.date_opened
                /\ \A v \in vessels : v.id = r.vessel_id => v \in vessels']_vars
    /\ [][Cardinality(repairs') = Cardinality(repairs) \/
          /\ resp'.op = "create_repair" /\ resp'.status = 200
          /\ \E r \in repairs' \ repairs :
                /\ repairs' = repairs \cup {r}
                /\ r.repair_uid = resp'.uid
                /\ r.date_opened = resp'.arg.date_opened
                /\ \E v \in vessels' :
                      v.id = r.vessel_id /\ v.hull_id = resp'.arg.hull_id]_vars

\* C21 witness: an update whose body named repair_uid, vessel_id and date_opened
\* succeeded on a repair that has a component change: the ticket is set, the
\* identity is not the body's
C21_Witness ==
    /\ resp.op = "patch_repair" /\ resp.status = 200
    /\ "repair_uid" \in DOMAIN resp.arg
    /\ LET r == RepairOf(repairs, resp.uid)
       IN /\ r.ticket = Some("T-2")
          /\ r.repair_uid # resp.arg["repair_uid"]
          /\ r.date_opened = <<2024, 1, 31>>
          /\ \E c \in component_changes : c.repair_id = r.id

====
